---- MODULE Spec2Model ----
(***************************************************************************)
(* Swarm (src/swarm/app.py): read a csv file, turn its rows into unified   *)
(* json packets and POST them one by one to the Web Data Collector.        *)
(*                                                                         *)
(* Texts (csv cells, rendered timestamps) are sequences of one-character   *)
(* strings.  Python values are tagged records: Float(n), None, Str(s),     *)
(* DateTime(d), Dict(r).  A Python dict is a function from keys to values. *)
(* Floats are modelled by integers; the csv cells of the model are integer *)
(* literals and non-numeric words.                                         *)
(***************************************************************************)
EXTENDS Integers, Sequences, FiniteSets, TLC

\* Longest csv file read by the model, in rows.
MaxRows == 2

(***************************************************************************)
(* Python values and exceptions                                            *)
(***************************************************************************)
Float(n) == [float |-> n]
None == [none |-> TRUE]
Str(s) == [str |-> s]
DateTime(d) == [datetime |-> d]
Dict(r) == [dict |-> r]
PyInt(n) == [int |-> n]

IsFloat(v) == DOMAIN v = {"float"}
IsNone(v) == DOMAIN v = {"none"}
IsStr(v) == DOMAIN v = {"str"}
IsDict(v) == DOMAIN v = {"dict"}

\* The outcome of a call: a returned value or a raised exception.
Ok(v) == [ok |-> TRUE, val |-> v]
Raise(e) == [ok |-> FALSE, exc |-> e]

\* {**a, **b}
Merge(a, b) == [k \in DOMAIN a \cup DOMAIN b |-> IF k \in DOMAIN b THEN b[k] ELSE a[k]]

Min(a, b) == IF a <= b THEN a ELSE b

\* dict(zip(keys, vals)): pairs up to the shorter of the two lists.
DictZip(keys, vals) ==
    LET n == Min(Len(keys), Len(vals))
    IN  [k \in {keys[i] : i \in 1..n} |-> vals[CHOOSE i \in 1..n : keys[i] = k]]

ELECTRICITY_KEYS ==
    << "aP_1", "aP_2", "aP_3", "rP_1", "rP_2", "rP_3", "apP_1", "apP_2", "apP_3",
       "v_1", "v_2", "v_3", "c_1", "c_2", "c_3", "pC_1", "pC_2", "pC_3",
       "v_12", "v_13", "v_23" >>

(***************************************************************************)
(* Texts and numbers                                                       *)
(***************************************************************************)
DigitChars == << "0", "1", "2", "3", "4", "5", "6", "7", "8", "9" >>

IsDigit(c) == \E i \in 1..10 : DigitChars[i] = c

DigitVal(c) == (CHOOSE i \in 1..10 : DigitChars[i] = c) - 1

AllDigits(s) == \A i \in 1..Len(s) : IsDigit(s[i])

RECURSIVE NatOf(_)
NatOf(s) == IF s = << >> THEN 0
            ELSE NatOf(SubSeq(s, 1, Len(s) - 1)) * 10 + DigitVal(s[Len(s)])

\* n rendered in exactly w digits (zero padded), as strftime's %Y, %m, %d, ... do.
RECURSIVE Digits(_, _)
Digits(n, w) == IF w = 0 THEN << >>
                ELSE Append(Digits(n \div 10, w - 1), DigitChars[(n % 10) + 1])

\* float(value): the literals of the model are optionally signed integers.
FloatOfText(s) ==
    LET signed == s # << >> /\ s[1] \in {"-", "+"}
        body == IF signed THEN Tail(s) ELSE s
    IN  IF body # << >> /\ AllDigits(body)
        THEN Ok(Float(IF signed /\ s[1] = "-" THEN 0 - NatOf(body) ELSE NatOf(body)))
        ELSE Raise("ValueError")

safe_string_to_float(value) ==
    LET r == FloatOfText(value)
    IN  IF r.ok THEN r.val ELSE None

(***************************************************************************)
(* datetime                                                                *)
(***************************************************************************)
IsLeap(y) == (y % 4 = 0 /\ y % 100 # 0) \/ y % 400 = 0

DaysInMonth(y, m) ==
    IF m = 2 THEN (IF IsLeap(y) THEN 29 ELSE 28)
    ELSE IF m \in {4, 6, 9, 11} THEN 30 ELSE 31

\* datetime.datetime.strptime(text, '%Y-%m-%d %H:%M:%S') on the canonical
\* 19-character rendering.
strptime(text) ==
    IF /\ Len(text) = 19
       /\ text[5] = "-" /\ text[8] = "-" /\ text[11] = " "
       /\ text[14] = ":" /\ text[17] = ":"
       /\ \A i \in (1..19) \ {5, 8, 11, 14, 17} : IsDigit(text[i])
    THEN LET d == [year |-> NatOf(SubSeq(text, 1, 4)),
                   month |-> NatOf(SubSeq(text, 6, 7)),
                   day |-> NatOf(SubSeq(text, 9, 10)),
                   hour |-> NatOf(SubSeq(text, 12, 13)),
                   minute |-> NatOf(SubSeq(text, 15, 16)),
                   second |-> NatOf(SubSeq(text, 18, 19))]
         IN  IF /\ d.year >= 1
                /\ d.month \in 1..12
                /\ d.day >= 1 /\ d.day <= DaysInMonth(d.year, d.month)
                /\ d.hour <= 23 /\ d.minute <= 59 /\ d.second <= 61
             THEN Ok(DateTime(d))
             ELSE Raise("ValueError")
    ELSE Raise("ValueError")

\* Brings a day count outside the month back into the calendar.
RECURSIVE NormaliseDay(_)
NormaliseDay(d) ==
    IF d.day > DaysInMonth(d.year, d.month)
    THEN NormaliseDay([d EXCEPT !.day = d.day - DaysInMonth(d.year, d.month),
                                !.month = IF d.month = 12 THEN 1 ELSE d.month + 1,
                                !.year = IF d.month = 12 THEN d.year + 1 ELSE d.year])
    ELSE IF d.day < 1
    THEN LET pm == IF d.month = 1 THEN 12 ELSE d.month - 1
             py == IF d.month = 1 THEN d.year - 1 ELSE d.year
         IN  NormaliseDay([d EXCEPT !.day = d.day + DaysInMonth(py, pm),
                                    !.month = pm, !.year = py])
    ELSE d

\* entry['tsISO8601'] + datetime.timedelta(minutes=minutes)
AddMinutes(dt, minutes) ==
    LET d == dt.datetime
        total == d.hour * 60 + d.minute + minutes
        days == total \div 1440
        rest == total % 1440
    IN  DateTime(NormaliseDay([d EXCEPT !.day = d.day + days,
                                        !.hour = rest \div 60,
                                        !.minute = rest % 60]))

\* dt.strftime('%Y-%m-%dT%H:%M:%S.000+00:00')
strftime(dt) ==
    LET d == dt.datetime
    IN  Digits(d.year, 4) \o << "-" >> \o Digits(d.month, 2) \o << "-" >>
        \o Digits(d.day, 2) \o << "T" >> \o Digits(d.hour, 2) \o << ":" >>
        \o Digits(d.minute, 2) \o << ":" >> \o Digits(d.second, 2)
        \o << ".", "0", "0", "0", "+", "0", "0", ":", "0", "0" >>

(***************************************************************************)
(* csv parsers, one row at a time                                          *)
(***************************************************************************)
\* The body of the loop of parse_single_value_csv: the record of one row.
parse_single_value_csv_row(row) ==
    IF Len(row) # 2 THEN Raise("ValueError")
    ELSE LET timestamp == row[1]
             value == row[2]
             packet_datetime == strptime(timestamp)
         IN  IF ~packet_datetime.ok THEN packet_datetime
             ELSE Ok([k \in {"tsISO8601", "value"} |->
                        IF k = "tsISO8601" THEN packet_datetime.val
                        ELSE safe_string_to_float(value)])

\* The body of the loop of parse_electricity_csv: the record of one row.
parse_electricity_csv_row(row) ==
    IF Len(row) < 1 THEN Raise("ValueError")
    ELSE LET timestamp == row[1]
             values == [i \in 1..(Len(row) - 1) |-> safe_string_to_float(row[i + 1])]
             packet_datetime == strptime(timestamp)
         IN  IF ~packet_datetime.ok THEN packet_datetime
             ELSE Ok(DictZip(<< "tsISO8601" >> \o ELECTRICITY_KEYS,
                             << packet_datetime.val >> \o values))

(***************************************************************************)
(* TimeserieProcessor                                                      *)
(***************************************************************************)
\* value * 6 on a Python value: only numbers multiply.
Times(v, n) == IF IsFloat(v) THEN Ok(Float(v.float * n)) ELSE Raise("TypeError")

\* The first exception raised while a list of outcomes is built in order, or
\* the list of the values.
Collect(outcomes) ==
    IF \E i \in 1..Len(outcomes) : ~outcomes[i].ok
    THEN outcomes[CHOOSE i \in 1..Len(outcomes) :
                    /\ ~outcomes[i].ok
                    /\ \A j \in 1..(i - 1) : outcomes[j].ok]
    ELSE Ok([i \in 1..Len(outcomes) |-> outcomes[i].val])

\* timeserie[0] and timeserie[1] of the source are timeserie[1] and timeserie[2] here.
_prepend_padding_value(timeserie, minutes) ==
    IF Len(timeserie) < 2 THEN Raise("IndexError")
    ELSE LET padding_entry == Merge(timeserie[1], [value |-> Dict(timeserie[2])])
             shifted(entry) ==
                 Merge(entry, [tsISO8601 |-> AddMinutes(entry["tsISO8601"], minutes)])
         IN  Ok(<< padding_entry >>
                \o [i \in 1..Len(timeserie) |-> shifted(timeserie[i])])

electrify_entry(entry) ==
    IF "value" \notin DOMAIN entry THEN Raise("KeyError")
    ELSE LET aP_1 == Times(entry["value"], 6)
         IN  IF ~aP_1.ok THEN aP_1
             ELSE Ok([k \in {"tsISO8601", "pC_1", "aP_1"} |->
                        CASE k = "tsISO8601" -> entry["tsISO8601"]
                          [] k = "pC_1" -> entry["value"]
                          [] k = "aP_1" -> aP_1.val])

_electrify(timeserie) ==
    Collect([i \in 1..Len(timeserie) |-> electrify_entry(timeserie[i])])

_build_unified_packets(timeserie, reference) ==
    [i \in 1..Len(timeserie) |->
        Merge(timeserie[i], [id |-> Str(reference),
                             tsISO8601 |-> Str(strftime(timeserie[i]["tsISO8601"]))])]

\* TimeserieProcessor(timeserie, fake_electric, minutes_shift).build_unified_packets(reference)
build_unified_packets(timeserie, fake_electric, minutes_shift, reference) ==
    LET shifted == IF ~IsNone(minutes_shift)
                   THEN _prepend_padding_value(timeserie, minutes_shift.int)
                   ELSE Ok(timeserie)
    IN  IF ~shifted.ok THEN shifted
        ELSE LET electrified == IF fake_electric THEN _electrify(shifted.val)
                                ELSE shifted
             IN  IF ~electrified.ok THEN electrified
                 ELSE Ok(_build_unified_packets(electrified.val, reference))

(***************************************************************************)
(* json                                                                    *)
(***************************************************************************)
\* json.dumps: the JSON text as its tree.  A datetime is not serializable.
RECURSIVE dumps(_)
dumps(v) ==
    IF IsFloat(v) THEN Ok([number |-> v.float])
    ELSE IF IsNone(v) THEN Ok([null |-> TRUE])
    ELSE IF IsStr(v) THEN Ok([string |-> v.str])
    ELSE IF IsDict(v)
    THEN LET members == [k \in DOMAIN v.dict |-> dumps(v.dict[k])]
         IN  IF \E k \in DOMAIN members : ~members[k].ok THEN Raise("TypeError")
             ELSE Ok([object |-> [k \in DOMAIN members |-> members[k].val]])
    ELSE Raise("TypeError")

\* json.loads
RECURSIVE loads(_)
loads(j) ==
    IF DOMAIN j = {"number"} THEN Float(j.number)
    ELSE IF DOMAIN j = {"null"} THEN None
    ELSE IF DOMAIN j = {"string"} THEN Str(j.string)
    ELSE Dict([k \in DOMAIN j.object |-> loads(j.object[k])])

\* payload = json.dumps(unified_json)
json_dumps(unified_json) == dumps(Dict(unified_json))

(***************************************************************************)
(* The inputs of a run                                                     *)
(***************************************************************************)
\* A timestamp written the way the csv files write it.
TimestampText(y, mo, d, h, mi, sec) ==
    Digits(y, 4) \o << "-" >> \o Digits(mo, 2) \o << "-" >> \o Digits(d, 2)
    \o << " " >> \o Digits(h, 2) \o << ":" >> \o Digits(mi, 2)
    \o << ":" >> \o Digits(sec, 2)

Morning == TimestampText(2020, 1, 1, 10, 0, 0)
MonthEnd == TimestampText(2020, 1, 31, 23, 50, 0)
HourTwentyFive == TimestampText(2020, 1, 1, 25, 0, 0)

\* n value columns holding 01, 02, ..., with the word x in column bad (0: none).
ValueColumns(n, bad) == [i \in 1..n |-> IF i = bad THEN << "x" >> ELSE Digits(i, 2)]

SingleValueRows ==
    { << Morning, << "5" >> >>, << MonthEnd, << "7" >> >>, << Morning, << "x" >> >>,
      << HourTwentyFive, << "5" >> >>, << Morning >>,
      << Morning, << "5" >>, << "7" >> >>,
      << >> }    \* csv.reader yields [] for a blank line

ElectricityRows ==
    { << Morning >> \o ValueColumns(Len(ELECTRICITY_KEYS), 0),
      << MonthEnd >> \o ValueColumns(Len(ELECTRICITY_KEYS), 16),
      << Morning >> \o ValueColumns(Len(ELECTRICITY_KEYS) - 1, 0),
      << Morning >> \o ValueColumns(Len(ELECTRICITY_KEYS) + 1, 0),
      << HourTwentyFive >> \o ValueColumns(Len(ELECTRICITY_KEYS), 0) }

CsvRows == SingleValueRows \cup ElectricityRows

CsvFiles == UNION { [1..n -> CsvRows] : n \in 0..MaxRows }

ChannelTypes == {"real", "fake", "single"}

\* [General] MinutesShift: absent (allow_no_value) or the text of an integer.
MinutesShiftTexts == { None, Str(<< "1", "5" >>) }

ChannelReference == << "a", "b", "c", "1", "2", "3" >>

\* What a POST can end in: a response with a status code, or a RequestException.
StatusCodes == {200, 201, 300, 301, 404, 503}
Outcomes == {[raised |-> FALSE, status |-> c] : c \in StatusCodes}
            \cup {[raised |-> TRUE, status |-> 0]}

\* The exit statuses of an interpreter killed by an uncaught KeyboardInterrupt.
KeyboardInterruptStatuses == {1, 130}

(***************************************************************************)
(* State                                                                   *)
(***************************************************************************)
VARIABLES
    started,        \* how main() was entered: "script" (python app.py) or "console_script"
    pc,             \* the place of main() the process is at
    argc,           \* len(sys.argv)
    config,         \* the [General] section once read
    minutes_shift,  \* None or PyInt(n), from [General] MinutesShift
    csvfile,        \* the rows of the csv file once opened
    row,            \* rows consumed by the parser
    timeserie,      \* the records parsed so far
    unified_jsons,  \* the packets handed to send
    sent,           \* iterations of the loop of send completed
    posts,          \* the bodies POSTed, in order
    lastlog,        \* the latest LOGGER call
    sigint,         \* a SIGINT was delivered
    exited          \* << >> while running, then [status, exc, at]

vars == << started, pc, argc, config, minutes_shift, csvfile, row, timeserie, unified_jsons,
           sent, posts, lastlog, sigint, exited >>

\* A LOGGER call; status is the status code a response was logged with, else 0.
LogRecord(level, msg, status) == [level |-> level, msg |-> msg, status |-> status]

NoLog == LogRecord("", "", 0)

Init ==
    /\ started \in {"script", "console_script"}
    /\ pc = "main"
    /\ argc = 0
    /\ config = [ChannelType |-> "", MinutesShift |-> None]
    /\ minutes_shift = None
    /\ csvfile = << >>
    /\ row = 0
    /\ timeserie = << >>
    /\ unified_jsons = << >>
    /\ sent = 0
    /\ posts = << >>
    /\ lastlog = NoLog
    /\ sigint = FALSE
    /\ exited = << >>

\* The process ends with `status`; exc names the uncaught exception, if any.
Exit(status, exc) ==
    /\ pc' = "exit"
    /\ exited' = << [status |-> status, exc |-> exc, at |-> pc] >>

(***************************************************************************)
(* main                                                                    *)
(***************************************************************************)
\* int(text)
int(text) ==
    LET r == FloatOfText(text)
    IN  IF r.ok THEN Ok(PyInt(r.val.float)) ELSE r

\* if len(sys.argv) != 2: print_usage_and_quit()   -- exit(-1) is status 255
CheckArguments ==
    /\ pc = "main"
    /\ \E n \in 1..3 :
        /\ argc' = n
        /\ IF n # 2 THEN Exit(255, "")
           ELSE pc' = "isfile" /\ UNCHANGED exited
    /\ UNCHANGED << started, config, minutes_shift, csvfile, row, timeserie,
                    unified_jsons, sent, posts, lastlog, sigint >>

\* if not isfile(config_path): exit(-1)
CheckConfigFile ==
    /\ pc = "isfile"
    /\ \E isfile \in BOOLEAN :
        IF ~isfile THEN Exit(255, "")
        ELSE pc' = "config" /\ UNCHANGED exited
    /\ UNCHANGED << started, argc, config, minutes_shift, csvfile, row, timeserie,
                    unified_jsons, sent, posts, lastlog, sigint >>

\* config.read, initialize_logger, credentials, minutes_shift
ReadConfig ==
    /\ pc = "config"
    /\ \E ct \in ChannelTypes, ms \in MinutesShiftTexts :
        LET shift == IF IsNone(ms) THEN Ok(None) ELSE int(ms.str)
        IN  /\ config' = [ChannelType |-> ct, MinutesShift |-> ms]
            /\ IF shift.ok
               THEN minutes_shift' = shift.val /\ pc' = "open" /\ UNCHANGED exited
               ELSE Exit(1, shift.exc) /\ UNCHANGED minutes_shift
    /\ UNCHANGED << started, argc, csvfile, row, timeserie, unified_jsons, sent,
                    posts, lastlog, sigint >>

\* codecs.open(expanded_filename, 'r', 'utf-8-sig') and csv.reader
OpenCsv ==
    /\ pc = "open"
    /\ \/ \E f \in CsvFiles :
            /\ csvfile' = f
            /\ pc' = "parse"
            /\ UNCHANGED exited
       \/ /\ Exit(1, "FileNotFoundError")
          /\ UNCHANGED csvfile
    /\ UNCHANGED << started, argc, config, minutes_shift, row, timeserie,
                    unified_jsons, sent, posts, lastlog, sigint >>

\* The parser main() selects by ChannelType, applied to one row.
RowRecord(channel_type, r) ==
    IF channel_type = "real" THEN parse_electricity_csv_row(r) ELSE parse_single_value_csv_row(r)

\* ParseRow with a per-row recovery: a row that raises is skipped.
ParseRowSkipping ==
    /\ pc = "parse"
    /\ row < Len(csvfile)
    /\ LET r == RowRecord(config.ChannelType, csvfile[row + 1])
       IN  timeserie' = IF r.ok THEN Append(timeserie, r.val) ELSE timeserie
    /\ row' = row + 1
    /\ UNCHANGED << started, pc, argc, config, minutes_shift, csvfile, unified_jsons,
                    sent, posts, lastlog, sigint, exited >>

\* One turn of `for row in csvreader`; an exception leaves main() uncaught.
ParseRow ==
    /\ pc = "parse"
    /\ row < Len(csvfile)
    /\ LET r == RowRecord(config.ChannelType, csvfile[row + 1])
       IN  IF r.ok
           THEN /\ timeserie' = Append(timeserie, r.val)
                /\ row' = row + 1
                /\ UNCHANGED << pc, exited >>
           ELSE /\ Exit(1, r.exc)
                /\ UNCHANGED << row, timeserie >>
    /\ UNCHANGED << started, argc, config, minutes_shift, csvfile, unified_jsons,
                    sent, posts, lastlog, sigint >>

\* return timeserie
ParseReturn ==
    /\ pc = "parse"
    /\ row = Len(csvfile)
    /\ pc' = "build"
    /\ UNCHANGED << started, argc, config, minutes_shift, csvfile, row, timeserie,
                    unified_jsons, sent, posts, lastlog, sigint, exited >>

\* TimeserieProcessor(...).build_unified_packets(config['General']['ChannelReference'])
BuildPackets ==
    /\ pc = "build"
    /\ LET r == build_unified_packets(timeserie, config.ChannelType = "fake",
                                      minutes_shift, ChannelReference)
       IN  IF r.ok
           THEN unified_jsons' = r.val /\ pc' = "send" /\ UNCHANGED exited
           ELSE Exit(1, r.exc) /\ UNCHANGED unified_jsons
    /\ UNCHANGED << started, argc, config, minutes_shift, csvfile, row, timeserie,
                    sent, posts, lastlog, sigint >>

(***************************************************************************)
(* send                                                                    *)
(***************************************************************************)
\* a / b == c, with / the true division of Python 3
TrueDivIs(a, b, c) == a = b * c

\* The level the response is logged at.
ResponseLevel(status_code) ==
    IF TrueDivIs(status_code, 100, 2) THEN "DEBUG"
    ELSE IF TrueDivIs(status_code, 100, 3) THEN "WARNING"
    ELSE "ERROR"

\* session = requests.Session(); LOGGER.info('Starting the swarm')
SendStart ==
    /\ pc = "send"
    /\ lastlog' = LogRecord("INFO", "Starting the swarm", 0)
    /\ pc' = "loop"
    /\ UNCHANGED << started, argc, config, minutes_shift, csvfile, row, timeserie,
                    unified_jsons, sent, posts, sigint, exited >>

\* payload = json.dumps(unified_json), outside the try; then the POST goes out.
SendPost ==
    /\ pc = "loop"
    /\ sent < Len(unified_jsons)
    /\ LET payload == json_dumps(unified_jsons[sent + 1])
       IN  IF payload.ok
           THEN posts' = Append(posts, payload.val) /\ pc' = "response"
                /\ UNCHANGED exited
           ELSE Exit(1, payload.exc) /\ UNCHANGED posts
    /\ UNCHANGED << started, argc, config, minutes_shift, csvfile, row, timeserie,
                    unified_jsons, sent, lastlog, sigint >>

\* The POST returns a response or raises a RequestException; either is logged
\* and the loop goes on.
SendResponse ==
    /\ pc = "response"
    /\ \E o \in Outcomes :
        lastlog' = IF o.raised THEN LogRecord("CRITICAL", "RequestException", 0)
                   ELSE LogRecord(ResponseLevel(o.status), "response", o.status)
    /\ sent' = sent + 1
    /\ pc' = "loop"
    /\ UNCHANGED << started, argc, config, minutes_shift, csvfile, row, timeserie,
                    unified_jsons, posts, sigint, exited >>

\* LOGGER.info('Completed'); main() returns and the process ends with status 0.
SendCompleted ==
    /\ pc = "loop"
    /\ sent = Len(unified_jsons)
    /\ lastlog' = LogRecord("INFO", "Completed", 0)
    /\ Exit(0, "")
    /\ UNCHANGED << started, argc, config, minutes_shift, csvfile, row, timeserie,
                    unified_jsons, sent, posts, sigint >>

(***************************************************************************)
(* SIGINT                                                                  *)
(***************************************************************************)
\* abort_and_quit is installed only under `if __name__ == '__main__'`; the
\* console script swarm=swarm.app:main leaves Python's default handler, which
\* raises KeyboardInterrupt.
Interrupt ==
    /\ pc # "exit"
    /\ sigint' = TRUE
    /\ IF started = "script"
       THEN /\ lastlog' = LogRecord("INFO", "Aborted", 0)
            /\ Exit(0, "")
       ELSE /\ \E status \in KeyboardInterruptStatuses : Exit(status, "KeyboardInterrupt")
            /\ UNCHANGED lastlog
    /\ UNCHANGED << started, argc, config, minutes_shift, csvfile, row, timeserie,
                    unified_jsons, sent, posts >>

Next ==
    \/ CheckArguments
    \/ CheckConfigFile
    \/ ReadConfig
    \/ OpenCsv
    \/ ParseRow
    \/ ParseReturn
    \/ BuildPackets
    \/ SendStart
    \/ SendPost
    \/ SendResponse
    \/ SendCompleted
    \/ Interrupt

Spec == Init /\ [][Next]_vars

(***************************************************************************)
(* Properties                                                              *)
(***************************************************************************)
SendPlaces == {"send", "loop", "response"}

\* Where the process was when it ended.
EndedAt == exited[1].at

\* The process ended on its own: no SIGINT was delivered.
Ended == pc = "exit" /\ ~sigint

\* build_unified_packets returned its packets / raised.
BuildReturned == pc \in SendPlaces \/ (pc = "exit" /\ EndedAt \in SendPlaces)
BuildRaised == Ended /\ EndedAt = "build"

ShiftSet == ~IsNone(minutes_shift)

FloorClass(status_code) == status_code \div 100

Suffix(s, n) == SubSeq(s, Len(s) - n + 1, Len(s))

\* C1: send issues exactly one POST per packet, in order, and always reaches the
\* final 'Completed' log, whatever the packets and whatever each POST ends in.
C1_SendPostsEveryPacketAndCompletes ==
    /\ \A i \in 1..Len(posts) :
          /\ json_dumps(unified_jsons[i]).ok
          /\ posts[i] = json_dumps(unified_jsons[i]).val
    /\ (Ended /\ EndedAt \in SendPlaces) =>
          /\ exited[1].exc = ""
          /\ lastlog = LogRecord("INFO", "Completed", 0)
          /\ Len(posts) = Len(unified_jsons)

\* C2: a response is logged by floor(status / 100): class 2 at debug level,
\* class 3 at warning level, every other class at error level.
C2_LevelFollowsFloorClass ==
    lastlog.msg = "response" =>
        lastlog.level = (IF FloorClass(lastlog.status) = 2 THEN "DEBUG"
                         ELSE IF FloorClass(lastlog.status) = 3 THEN "WARNING"
                         ELSE "ERROR")

\* C3: with minutes_shift = M, fake_electric off and n >= 2 single-value records,
\* the output has n + 1 packets; the first has r[0]'s unshifted timestamp and
\* r[1]'s value (a float or null); packet i + 1 is r[i] shifted by M minutes.
C3_PaddingCarriesSecondValue ==
    (/\ BuildReturned /\ ShiftSet /\ config.ChannelType = "single"
     /\ Len(timeserie) >= 2) =>
        /\ Len(unified_jsons) = Len(timeserie) + 1
        /\ unified_jsons[1]["tsISO8601"] = Str(strftime(timeserie[1]["tsISO8601"]))
        /\ unified_jsons[1]["value"] = timeserie[2]["value"]
        /\ \A i \in 1..Len(timeserie) :
              unified_jsons[i + 1] =
                  Merge(timeserie[i],
                        [id |-> Str(ChannelReference),
                         tsISO8601 |-> Str(strftime(AddMinutes(timeserie[i]["tsISO8601"],
                                                               minutes_shift.int)))])

\* C4: with fake_electric on, for every record sequence and minutes_shift set or
\* unset, the call returns one packet per transformed record, each with exactly
\* the keys id, tsISO8601, pC_1, aP_1 and aP_1 = 6 * pC_1.  (The shift is given
\* the two records it needs.)
C4_FakeElectricAlwaysReturns ==
    (/\ config.ChannelType = "fake" /\ (BuildReturned \/ BuildRaised)
     /\ ShiftSet => Len(timeserie) >= 2) =>
        /\ BuildReturned
        /\ Len(unified_jsons) = Len(timeserie) + (IF ShiftSet THEN 1 ELSE 0)
        /\ \A i \in 1..Len(unified_jsons) :
              /\ DOMAIN unified_jsons[i] = {"id", "tsISO8601", "pC_1", "aP_1"}
              /\ Times(unified_jsons[i]["pC_1"], 6).ok
              /\ unified_jsons[i]["aP_1"] = Times(unified_jsons[i]["pC_1"], 6).val

\* The shape the parser selected by channel_type asks of a row.
WellShapedRow(channel_type, r) ==
    /\ Len(r) = (IF channel_type = "real" THEN Len(ELECTRICITY_KEYS) + 1 ELSE 2)
    /\ strptime(r[1]).ok

WellShapedFile ==
    \A i \in 1..Len(csvfile) : WellShapedRow(config.ChannelType, csvfile[i])

\* C5: a csv of well-shaped rows with valid timestamps and non-numeric values,
\* read with any ChannelType and no MinutesShift, never aborts the run: one
\* packet per row is built and posted.
C5_NonNumericNeverAborts ==
    (/\ Ended /\ EndedAt \in {"parse", "build"} \cup SendPlaces
     /\ ~ShiftSet /\ WellShapedFile) =>
        /\ exited[1].exc = ""
        /\ Len(unified_jsons) = Len(csvfile)
        /\ Len(posts) = Len(csvfile)

\* C6: parse_electricity_csv fails on a row whose number of value columns is not
\* 21, so every record it returns has the 21 keys plus the timestamp, each value
\* column mapped positionally.
C6_ElectricityRowsHave21Values ==
    config.ChannelType = "real" =>
        \A i \in 1..Len(timeserie) :
            /\ Len(csvfile[i]) - 1 = Len(ELECTRICITY_KEYS)
            /\ DOMAIN timeserie[i] =
                   {"tsISO8601"} \cup {ELECTRICITY_KEYS[k] : k \in 1..Len(ELECTRICITY_KEYS)}
            /\ \A k \in 1..Len(ELECTRICITY_KEYS) :
                   timeserie[i][ELECTRICITY_KEYS[k]] = safe_string_to_float(csvfile[i][k + 1])

\* A row the claim calls malformed: a wrong column count for the single-value
\* parser, or an unparseable timestamp for either parser.
MalformedRow(channel_type, r) ==
    \/ channel_type # "real" /\ Len(r) # 2
    \/ Len(r) >= 1 /\ ~strptime(r[1]).ok

MalformedFile ==
    \E i \in 1..Len(csvfile) : MalformedRow(config.ChannelType, csvfile[i])

\* C7: in a run whose csv holds a malformed row, at whatever position, no POST
\* is ever issued and send is never entered; and send starts only once the
\* whole file is parsed.
C7_MalformedFileNeverPosts ==
    /\ MalformedFile =>
          /\ posts = << >>
          /\ unified_jsons = << >>
          /\ pc \notin SendPlaces
          /\ Ended => (exited[1].exc = "ValueError" /\ exited[1].status # 0)
    /\ (pc \in SendPlaces \/ posts # << >>) => row = Len(csvfile)

\* C7 witness: the run died on a malformed row that follows a well-formed one.
C7_Witness ==
    /\ Ended /\ EndedAt = "parse" /\ exited[1].exc = "ValueError"
    /\ row >= 1 /\ Len(timeserie) = row
    /\ MalformedRow(config.ChannelType, csvfile[row + 1])
    /\ posts = << >>

\* C8: with minutes_shift set, a sequence of 0 or 1 records makes
\* build_unified_packets fail and return nothing; with minutes_shift unset,
\* sequences of 0 and 1 records return 0 and 1 packets.
C8_ShortSequences ==
    ((BuildReturned \/ BuildRaised) /\ Len(timeserie) <= 1) =>
        IF ShiftSet
        THEN BuildRaised /\ unified_jsons = << >>
        ELSE BuildReturned /\ Len(unified_jsons) = Len(timeserie)

\* C9: a usage error or a missing config file exits non-zero before any csv
\* read or POST; normal completion exits 0; an interrupt during parsing,
\* transformation or the upload loop logs 'Aborted' and exits 0 -- for every
\* way the program is started.
C9_ExitCodes ==
    pc = "exit" =>
        /\ (~sigint /\ EndedAt \in {"main", "isfile"}) =>
              (exited[1].status # 0 /\ csvfile = << >> /\ row = 0 /\ posts = << >>)
        /\ (~sigint /\ lastlog.msg = "Completed") => exited[1].status = 0
        /\ (sigint /\ EndedAt \in {"parse", "build"} \cup SendPlaces) =>
              (exited[1].status = 0 /\ lastlog = LogRecord("INFO", "Aborted", 0))

\* The fields of a packet other than id and tsISO8601.
OtherKeys(packet) == DOMAIN packet \ {"id", "tsISO8601"}

\* C10: every packet build_unified_packets returns has id = the channel
\* reference, tsISO8601 a text ending in .000+00:00, every other field a number
\* or null, so that json.dumps succeeds and json.loads gives the packet back.
C10_PacketsAreWellFormed ==
    BuildReturned =>
        \A i \in 1..Len(unified_jsons) :
            LET packet == unified_jsons[i]
            IN  /\ packet["id"] = Str(ChannelReference)
                /\ IsStr(packet["tsISO8601"])
                /\ Suffix(packet["tsISO8601"].str, 10)
                       = << ".", "0", "0", "0", "+", "0", "0", ":", "0", "0" >>
                /\ \A k \in OtherKeys(packet) : IsFloat(packet[k]) \/ IsNone(packet[k])
                /\ json_dumps(packet).ok
                /\ loads(json_dumps(packet).val) = Dict(packet)

====
